---- MODULE Spec2Model ----
(***************************************************************************)
(* Model of simulation_api.py: a Flask endpoint GET /run-simulation that   *)
(* evaluates the curvature field Z = max(-mass / R_base, -15) over a       *)
(* precomputed grid, draws it with matplotlib.pyplot on a figure created   *)
(* by plt.figure, saves the figure as PNG into a BytesIO buffer and        *)
(* returns the base64 text in a JSON envelope.                             *)
(*                                                                         *)
(* Floats are modelled as exact rationals [k |-> "fin", n, d] (d > 0),     *)
(* plus nan, inf and ninf.  Square roots are evaluated to a fixed number   *)
(* of digits (SqrtDigits).  Requests run on the threads of the Flask       *)
(* development server; the pyplot registry Gcf is the process-wide state   *)
(* they share.                                                             *)
(***************************************************************************)
EXTENDS Integers, Sequences, FiniteSets, TLC

\* ------------------------------------------------------------ constants
GRID_SIZE == 100
GRID_MAX == 20
CLIP_VALUE == -15
SPHERE_X == 12
SPHERE_Y == 5
\* 1e-6, the term added to every radial distance, is 1 / EpsInv.
EpsInv == 1000000
\* the upper limit given to ax.set_zlim
ZLIM_TOP == 5

\* ------------------------------------------------------------ bounds
\* The grid is sampled at GridSamples + 1 evenly spread rows and columns.
GridSamples == 2
\* Requests served in one behaviour.
MaxRequests == 2
\* np.sqrt is evaluated in steps of 1 / SqrtDigits: sqrt(n) is
\* ISqrt(n * SqrtDigits^2) / SqrtDigits.
SqrtDigits == 10

\* The request threads.
Threads == {1, 2}

\* ------------------------------------------------------------ floats
Fin(n, d) == [k |-> "fin", n |-> n, d |-> d]
NaN == [k |-> "nan"]
PosInf == [k |-> "inf"]
NegInf == [k |-> "ninf"]

\* a default other than 10.0
OtherDefaultMass == Fin(1, 1)

INITIAL_MASS == Fin(10, 1)

Abs(a) == IF a < 0 THEN -a ELSE a

RECURSIVE GCD(_, _)
GCD(a, b) == IF b = 0 THEN a ELSE GCD(b, a % b)

\* The canonical form of a float: lowest terms.
Norm(f) ==
  IF f.k # "fin" THEN f
  ELSE LET g == GCD(Abs(f.n), f.d) IN Fin(f.n \div g, f.d \div g)

\* a < b on floats (false when either is nan, as IEEE comparison is).
Less(a, b) ==
  CASE a.k = "nan" \/ b.k = "nan" -> FALSE
    [] a.k = "ninf" -> b.k # "ninf"
    [] a.k = "inf" -> FALSE
    [] b.k = "ninf" -> FALSE
    [] b.k = "inf" -> TRUE
    [] OTHER -> a.n * b.d < b.n * a.d

LessEq(a, b) ==
  CASE a.k = "nan" \/ b.k = "nan" -> FALSE
    [] a.k = "ninf" -> TRUE
    [] b.k = "inf" -> TRUE
    [] a.k = "inf" -> FALSE
    [] b.k = "ninf" -> FALSE
    [] OTHER -> a.n * b.d <= b.n * a.d

\* -m / r for a finite r > 0.
NegDiv(m, r) ==
  CASE m.k = "nan" -> NaN
    [] m.k = "inf" -> NegInf
    [] m.k = "ninf" -> PosInf
    [] OTHER -> Fin(-(m.n * r.d), m.d * r.n)

\* np.maximum(z, c): nan propagates.
NpMinimum(z, c) ==
  IF z.k = "nan" \/ c.k = "nan" THEN NaN
  ELSE IF Less(c, z) THEN c ELSE z

NpMaximum(z, c) ==
  IF z.k = "nan" \/ c.k = "nan" THEN NaN
  ELSE IF Less(z, c) THEN c ELSE z

\* floor(sqrt(n)), by bisection.
RECURSIVE SqrtBetween(_, _, _)
SqrtBetween(n, lo, hi) ==
  IF lo >= hi THEN lo
  ELSE LET mid == (lo + hi + 1) \div 2
       IN IF mid * mid <= n THEN SqrtBetween(n, mid, hi)
          ELSE SqrtBetween(n, lo, mid - 1)

ISqrt(n) == SqrtBetween(n, 0, 46340)

\* ------------------------------------------------------------ the grid

\* The sampled row and column indices of the GRID_SIZE x GRID_SIZE mesh.
Idx == {(k * (GRID_SIZE - 1)) \div GridSamples : k \in 0..GridSamples}

\* np.linspace(-GRID_MAX, GRID_MAX, GRID_SIZE)[i], as a fraction over GRID_SIZE-1.
Linspace(i) == Fin(2 * GRID_MAX * i - GRID_MAX * (GRID_SIZE - 1), GRID_SIZE - 1)

\* np.meshgrid(x, y): X[i][j] = x[j], Y[i][j] = y[i].
MeshX == [i \in Idx |-> [j \in Idx |-> Linspace(j)]]
MeshY == [i \in Idx |-> [j \in Idx |-> Linspace(i)]]

\* np.sqrt(X**2 + Y**2) + 1e-6 at one point, as a fraction over EpsInv.
Radial(xv, yv) ==
  LET s == ISqrt((xv.n * xv.n + yv.n * yv.n) * SqrtDigits * SqrtDigits)
      whole == ((s * (EpsInv \div 100)) \div (xv.d * SqrtDigits)) * 100
  IN Fin(whole + 1, EpsInv)

RadialField(xs, ys) == [i \in Idx |-> [j \in Idx |-> Radial(xs[i][j], ys[i][j])]]

GridBuilder == [X |-> MeshX, Y |-> MeshY, R_base |-> RadialField(MeshX, MeshY)]

\* ------------------------------------------------------------ query strings
\* A query value is a sequence of characters; NoArg is a request without
\* the parameter.
NoArg == <<"(absent)">>
Queries ==
  { NoArg,
    <<"1", "0", ".", "0">>,
    <<"a", "b", "c">>,
    <<"2", "0", "0">>,
    <<"0">>,
    <<"-", "0", ".", "2", "5">>,
    <<"i", "n", "f">> }

DigitVal ==
  [c \in {"0", "1", "2", "3", "4", "5", "6", "7", "8", "9"} |->
     CASE c = "0" -> 0 [] c = "1" -> 1 [] c = "2" -> 2 [] c = "3" -> 3
       [] c = "4" -> 4 [] c = "5" -> 5 [] c = "6" -> 6 [] c = "7" -> 7
       [] c = "8" -> 8 [] OTHER -> 9]

IsDigits(s) == \A i \in 1..Len(s) : s[i] \in DOMAIN DigitVal

RECURSIVE DigitsValue(_)
DigitsValue(s) ==
  IF Len(s) = 0 THEN 0
  ELSE DigitsValue(SubSeq(s, 1, Len(s) - 1)) * 10 + DigitVal[s[Len(s)]]

RECURSIVE Pow10(_)
Pow10(k) == IF k = 0 THEN 1 ELSE 10 * Pow10(k - 1)

ValueError == [k |-> "ValueError"]

\* float(s) for the decimal forms [sign] digits [. digits], inf and nan;
\* every other string raises ValueError.
ParseFloat(s) ==
  LET neg == Len(s) > 0 /\ s[1] = "-"
      signed == Len(s) > 0 /\ s[1] \in {"-", "+"}
      body == IF signed THEN SubSeq(s, 2, Len(s)) ELSE s
      dots == {i \in 1..Len(body) : body[i] = "."}
      dot == IF dots = {} THEN Len(body) + 1 ELSE CHOOSE i \in dots : \A j \in dots : i <= j
      ip == SubSeq(body, 1, dot - 1)
      fp == SubSeq(body, dot + 1, Len(body))
      mag == DigitsValue(ip \o fp)
  IN CASE body = <<"i", "n", "f">> -> IF neg THEN NegInf ELSE PosInf
       [] body = <<"n", "a", "n">> -> NaN
       [] IsDigits(ip) /\ IsDigits(fp) /\ Len(ip) + Len(fp) > 0 ->
            Norm(Fin(IF neg THEN -mag ELSE mag, Pow10(Len(fp))))
       [] OTHER -> ValueError

\* request.args.get('mass', default=INITIAL_MASS, type=float): the default
\* when the key is missing, and also when float() raises ValueError.
ArgsGet(q, default) ==
  IF q = NoArg THEN default
  ELSE LET v == ParseFloat(q) IN IF v = ValueError THEN default ELSE v

\* ------------------------------------------------------------ field evaluator
Clip == Fin(CLIP_VALUE, 1)

\* Z = -mass_value / R_base
Curvature(m, R) == [i \in Idx |-> [j \in Idx |-> NegDiv(m, R[i][j])]]

\* np.minimum in place of np.maximum
ClipFieldMin(Z) == [i \in Idx |-> [j \in Idx |-> NpMinimum(Z[i][j], Clip)]]

\* Z_clipped = np.maximum(Z, CLIP_VALUE)
ClipField(Z) == [i \in Idx |-> [j \in Idx |-> NpMaximum(Z[i][j], Clip)]]

\* the radial distance of the test particle without the 1e-6 term
RSphereNoEps ==
  LET r == Radial(Fin(SPHERE_X, 1), Fin(SPHERE_Y, 1)) IN Fin(r.n - 1, r.d)

\* r_sphere = np.sqrt(SPHERE_X**2 + SPHERE_Y**2) + 1e-6
RSphere == Radial(Fin(SPHERE_X, 1), Fin(SPHERE_Y, 1))

\* z_sphere_clipped = np.maximum(-mass_value / r_sphere, CLIP_VALUE)
ZSphereClipped(m) == NpMaximum(NegDiv(m, RSphere), Clip)

\* ------------------------------------------------------------ renderer
Min2(a, b) == IF a < b THEN a ELSE b
Max2(a, b) == IF a < b THEN b ELSE a

RECURSIVE SortedSeq(_)
SortedSeq(S) ==
  IF S = {} THEN <<>>
  ELSE LET m == CHOOSE a \in S : \A b \in S : a <= b
       IN <<m>> \o SortedSeq(S \ {m})

\* rstride=2, cstride=2: every second row and column, and the last one.
Strided == SortedSeq({i \in Idx : i % 2 = 0 \/ i = GRID_SIZE - 1})

\* f"{mass_value:.1f}": the text nan, inf or -inf, or the value in tenths,
\* rounded half to even.
Fmt1(m) ==
  IF m.k # "fin" THEN [text |-> m.k, tenths |-> 0]
  ELSE LET t == m.n * 10
           q == t \div m.d
           r == t % m.d
       IN [text |-> "decimal",
           tenths |-> IF 2 * r > m.d \/ (2 * r = m.d /\ q % 2 = 1) THEN q + 1 ELSE q]

\* What lines 35-54 put on a figure: the axes with the surface, the marker,
\* the title, the labels, the z range and the legend.
Artists(m, xs, ys, zc, zs) ==
  [ surface |-> [a \in 1..Len(Strided) |-> [b \in 1..Len(Strided) |->
                   <<xs[Strided[a]][Strided[b]], ys[Strided[a]][Strided[b]],
                     zc[Strided[a]][Strided[b]]>>]],
    marker |-> <<Fin(SPHERE_X, 1), Fin(SPHERE_Y, 1), zs>>,
    title |-> Fmt1(m),
    labels |-> <<"Space (x)", "Space (y)", "Curvature (z)">>,
    zlim |-> <<CLIP_VALUE, ZLIM_TOP>>,
    legend |-> "Test Particle" ]

\* The raster position of a coordinate, as one byte: per steps to the unit,
\* counted from lo.
Pixel(v, lo, per) ==
  IF v.k = "nan" THEN 0
  ELSE IF v.k = "inf" THEN 255
  ELSE IF v.k = "ninf" THEN 0
  ELSE LET q == v.n \div v.d
           f == (v.n % v.d) \div ((v.d \div per) + 1)
       IN IF q - lo > 255 \div per THEN 255
          ELSE Max2(0, Min2(255, (q - lo) * per + f))

TitleBytes(t) ==
  IF t.text = "nan" THEN <<255, 254>>
  ELSE IF t.text = "inf" THEN <<255, 255>>
  ELSE IF t.text = "ninf" THEN <<255, 253>>
  ELSE <<(t.tenths \div 256) % 256, t.tenths % 256>>

PointBytes(p, zl) ==
  <<Pixel(p[1], -GRID_MAX, 6), Pixel(p[2], -GRID_MAX, 6), Pixel(p[3], zl[1], 8)>>

RECURSIVE Flatten(_)
Flatten(ss) == IF Len(ss) = 0 THEN <<>> ELSE Head(ss) \o Flatten(Tail(ss))

ArtistBytes(a) ==
  TitleBytes(a.title)
    \o PointBytes(a.marker, a.zlim)
    \o Flatten([i \in 1..Len(a.surface) |->
         Flatten([j \in 1..Len(a.surface[i]) |-> PointBytes(a.surface[i][j], a.zlim)])])

PngSignature == <<137, 80, 78, 71, 13, 10, 26, 10>>

\* The PNG bytes of a figure: the signature, then what each artist set
\* on the figure rasterises to.
PngBytes(figure) ==
  PngSignature \o Flatten([i \in 1..Len(figure) |-> ArtistBytes(figure[i])])

\* ------------------------------------------------------------ encoder
\* io.BytesIO: the bytes and the stream position.
BytesIO == [data |-> <<>>, pos |-> 0]

BufWrite(b, bytes) ==
  [data |-> SubSeq(b.data, 1, b.pos) \o bytes
              \o SubSeq(b.data, b.pos + Len(bytes) + 1, Len(b.data)),
   pos |-> b.pos + Len(bytes)]

\* the buffer left where savefig stopped writing
BufNoSeek(b) == b

\* buf.seek(0)
BufSeek0(b) == [b EXCEPT !.pos = 0]

\* buf.read(): the bytes from the position to the end
BufRead(b) == SubSeq(b.data, b.pos + 1, Len(b.data))

B64Alphabet ==
  << "A", "B", "C", "D", "E", "F", "G", "H", "I", "J", "K", "L", "M",
     "N", "O", "P", "Q", "R", "S", "T", "U", "V", "W", "X", "Y", "Z",
     "a", "b", "c", "d", "e", "f", "g", "h", "i", "j", "k", "l", "m",
     "n", "o", "p", "q", "r", "s", "t", "u", "v", "w", "x", "y", "z",
     "0", "1", "2", "3", "4", "5", "6", "7", "8", "9", "+", "/" >>

B64Char(v) == B64Alphabet[v + 1]

\* base64.b64encode(bytes).decode('utf-8')
RECURSIVE b64encode(_)
b64encode(bs) ==
  IF Len(bs) = 0 THEN <<>>
  ELSE IF Len(bs) = 1 THEN
    <<B64Char(bs[1] \div 4), B64Char((bs[1] % 4) * 16), "=", "=">>
  ELSE IF Len(bs) = 2 THEN
    <<B64Char(bs[1] \div 4), B64Char((bs[1] % 4) * 16 + bs[2] \div 16),
      B64Char((bs[2] % 16) * 4), "=">>
  ELSE
    <<B64Char(bs[1] \div 4), B64Char((bs[1] % 4) * 16 + bs[2] \div 16),
      B64Char((bs[2] % 16) * 4 + bs[3] \div 64), B64Char(bs[3] % 64)>>
      \o b64encode(SubSeq(bs, 4, Len(bs)))

DataUriPrefix == "data:image/png;base64,"

\* f"data:image/png;base64,{image_base64}"
DataUri(b64) == <<DataUriPrefix>> \o b64

\* ------------------------------------------------------------ state
VARIABLES
  X, Y, R_base,   \* the module-level grid and base radial field
  Gcf,            \* pyplot's figure registry, oldest first; the last is current
  figures,        \* the Figure objects on the heap
  served,         \* requests received so far
  pc,             \* where each request thread is
  query,          \* the mass parameter of the thread's request
  mass, Z_clipped, num, fig, z_sphere_clipped, buf, image_base64,   \* locals
  exc,            \* the exception the thread's handler caught
  calls,          \* calls of generate_plot_image made for the request
  response        \* what simulation_endpoint returned

vars == <<X, Y, R_base, Gcf, figures, served, pc, query, mass, Z_clipped, num,
          fig, z_sphere_clipped, buf, image_base64, exc, calls, response>>

None == [k |-> "None"]
NoField == <<>>
NoException == [raised |-> FALSE, text |-> ""]
Freed == [alive |-> FALSE, artists |-> <<>>]
NewFigure == [alive |-> TRUE, artists |-> <<>>]
ObjIds == 1..MaxRequests

\* The steps of generate_plot_image at which the libraries may raise.
Raising == {"register", "draw", "save"}

ExcText(p) ==
  CASE p = "register" -> "could not create the figure"
    [] p = "draw" -> "could not draw the surface"
    [] p = "save" -> "could not write the image"
    [] OTHER -> "could not encode the image"

\* get_fignums() and next_num = max(allnums) + 1 if allnums else 1
NextNum(gcf) ==
  IF Len(gcf) = 0 THEN 1
  ELSE 1 + (CHOOSE n \in {gcf[i].num : i \in 1..Len(gcf)} :
              \A i \in 1..Len(gcf) : gcf[i].num <= n)

\* Gcf._set_new_active_manager: figs[num] = manager, moved to the end
SetNewActive(gcf, n, f) ==
  Append(SelectSeq(gcf, LAMBDA e : e.num # n), [num |-> n, fig |-> f])

\* plt.close(fig): Gcf.destroy_fig drops the manager whose figure is fig
DestroyFig(gcf, f) == SelectSeq(gcf, LAMBDA e : e.fig # f)

\* Figure objects neither registered nor held by a running call are freed.
Collect(figs, gcf, held) ==
  [i \in ObjIds |->
     IF i \in held \/ \E k \in 1..Len(gcf) : gcf[k].fig = i THEN figs[i] ELSE Freed]

Held(figv) == {figv[t] : t \in Threads} \ {0}

\* the figure pyplot calls current
DrawTargetCurrent(t) == IF Len(Gcf) = 0 THEN fig[t] ELSE Gcf[Len(Gcf)].fig

\* ax = fig.add_subplot(...): the axes drawn on belong to the call's figure
DrawTarget(t) == fig[t]

\* jsonify({...}) with the default status
Success(m, img) ==
  [code |-> 200, body |-> [status |-> "success", mass_used |-> m, image_data |-> img]]

\* a failure answered as a success
FailureAs200(e) == [code |-> 200, body |-> [status |-> "error", message |-> e.text]]

\* jsonify({"status": "error", "message": str(e)}), 500
Failure(e) == [code |-> 500, body |-> [status |-> "error", message |-> e.text]]

Init ==
  /\ X = GridBuilder.X
  /\ Y = GridBuilder.Y
  /\ R_base = GridBuilder.R_base
  /\ Gcf = <<>>
  /\ figures = [i \in ObjIds |-> Freed]
  /\ served = 0
  /\ pc = [t \in Threads |-> "idle"]
  /\ query = [t \in Threads |-> NoArg]
  /\ mass = [t \in Threads |-> None]
  /\ Z_clipped = [t \in Threads |-> NoField]
  /\ num = [t \in Threads |-> 0]
  /\ fig = [t \in Threads |-> 0]
  /\ z_sphere_clipped = [t \in Threads |-> None]
  /\ buf = [t \in Threads |-> BytesIO]
  /\ image_base64 = [t \in Threads |-> <<>>]
  /\ exc = [t \in Threads |-> NoException]
  /\ calls = [t \in Threads |-> 0]
  /\ response = [t \in Threads |-> None]

\* the field computed into R_base's own storage
ReceiveInPlace(t, q) ==
  /\ pc[t] \in {"idle", "done"}
  /\ served < MaxRequests
  /\ served' = served + 1
  /\ query' = [query EXCEPT ![t] = q]
  /\ mass' = [mass EXCEPT ![t] = ArgsGet(q, INITIAL_MASS)]
  /\ R_base' = ClipField(Curvature(mass'[t], R_base))
  /\ Z_clipped' = [Z_clipped EXCEPT ![t] = R_base']
  /\ num' = [num EXCEPT ![t] = 0]
  /\ fig' = [fig EXCEPT ![t] = 0]
  /\ z_sphere_clipped' = [z_sphere_clipped EXCEPT ![t] = None]
  /\ buf' = [buf EXCEPT ![t] = BytesIO]
  /\ image_base64' = [image_base64 EXCEPT ![t] = <<>>]
  /\ exc' = [exc EXCEPT ![t] = NoException]
  /\ calls' = [calls EXCEPT ![t] = 1]
  /\ response' = [response EXCEPT ![t] = None]
  /\ pc' = [pc EXCEPT ![t] = "figure"]
  /\ UNCHANGED <<X, Y, Gcf, figures>>

\* A request arrives: the handler reads the parameter and calls
\* generate_plot_image, which evaluates the field.
Receive(t, q) ==
  /\ pc[t] \in {"idle", "done"}
  /\ served < MaxRequests
  /\ served' = served + 1
  /\ query' = [query EXCEPT ![t] = q]
  /\ mass' = [mass EXCEPT ![t] = ArgsGet(q, INITIAL_MASS)]
  /\ Z_clipped' = [Z_clipped EXCEPT ![t] = ClipField(Curvature(mass'[t], R_base))]
  /\ num' = [num EXCEPT ![t] = 0]
  /\ fig' = [fig EXCEPT ![t] = 0]
  /\ z_sphere_clipped' = [z_sphere_clipped EXCEPT ![t] = None]
  /\ buf' = [buf EXCEPT ![t] = BytesIO]
  /\ image_base64' = [image_base64 EXCEPT ![t] = <<>>]
  /\ exc' = [exc EXCEPT ![t] = NoException]
  /\ calls' = [calls EXCEPT ![t] = 1]
  /\ response' = [response EXCEPT ![t] = None]
  /\ pc' = [pc EXCEPT ![t] = "figure"]
  /\ UNCHANGED <<X, Y, R_base, Gcf, figures>>

\* plt.figure, first half: the next figure number is read off the registry.
FigureNum(t) ==
  /\ pc[t] = "figure"
  /\ num' = [num EXCEPT ![t] = NextNum(Gcf)]
  /\ pc' = [pc EXCEPT ![t] = "register"]
  /\ UNCHANGED <<X, Y, R_base, Gcf, figures, served, query, mass, Z_clipped,
                 fig, z_sphere_clipped, buf, image_base64, exc, calls, response>>

\* plt.figure, second half: the Figure is created and registered as current.
FigureRegister(t) ==
  /\ pc[t] = "register"
  /\ LET id == CHOOSE i \in ObjIds :
                 /\ ~figures[i].alive
                 /\ \A j \in ObjIds : ~figures[j].alive => i <= j
     IN /\ fig' = [fig EXCEPT ![t] = id]
        /\ Gcf' = SetNewActive(Gcf, num[t], id)
        /\ figures' = Collect([figures EXCEPT ![id] = NewFigure], Gcf', Held(fig'))
  /\ pc' = [pc EXCEPT ![t] = "draw"]
  /\ UNCHANGED <<X, Y, R_base, served, query, mass, Z_clipped, num,
                 z_sphere_clipped, buf, image_base64, exc, calls, response>>

\* add_subplot, plot_surface, plot, the title, the labels, zlim, the legend.
Draw(t) ==
  /\ pc[t] = "draw"
  /\ z_sphere_clipped' = [z_sphere_clipped EXCEPT ![t] = ZSphereClipped(mass[t])]
  /\ figures' = [figures EXCEPT ![DrawTarget(t)].artists =
                   Append(@, Artists(mass[t], X, Y, Z_clipped[t], z_sphere_clipped'[t]))]
  /\ pc' = [pc EXCEPT ![t] = "save"]
  /\ UNCHANGED <<X, Y, R_base, Gcf, served, query, mass, Z_clipped, num, fig,
                 buf, image_base64, exc, calls, response>>

\* buf = io.BytesIO(); fig.savefig(buf); buf.seek(0); b64encode(buf.read())
SaveEncode(t) ==
  /\ pc[t] = "save"
  /\ LET written == BufSeek0(BufWrite(BytesIO, PngBytes(figures[fig[t]].artists)))
         bytes == BufRead(written)
     IN /\ buf' = [buf EXCEPT ![t] = [written EXCEPT !.pos = Len(written.data)]]
        /\ image_base64' = [image_base64 EXCEPT ![t] = b64encode(bytes)]
  /\ pc' = [pc EXCEPT ![t] = "close"]
  /\ UNCHANGED <<X, Y, R_base, Gcf, figures, served, query, mass, Z_clipped,
                 num, fig, z_sphere_clipped, exc, calls, response>>

\* plt.close(fig), the data URI is returned and the handler answers 200.
CloseReturn(t) ==
  /\ pc[t] = "close"
  /\ Gcf' = DestroyFig(Gcf, fig[t])
  /\ fig' = [fig EXCEPT ![t] = 0]
  /\ figures' = Collect(figures, Gcf', Held(fig'))
  /\ response' = [response EXCEPT ![t] = Success(mass[t], DataUri(image_base64[t]))]
  /\ pc' = [pc EXCEPT ![t] = "done"]
  /\ UNCHANGED <<X, Y, R_base, served, query, mass, Z_clipped, num,
                 z_sphere_clipped, buf, image_base64, exc, calls>>

\* A library call raises; the exception leaves generate_plot_image and the
\* handler's except clause answers.
Fail(t) ==
  /\ pc[t] \in Raising
  /\ exc' = [exc EXCEPT ![t] = [raised |-> TRUE, text |-> ExcText(pc[t])]]
  /\ fig' = [fig EXCEPT ![t] = 0]
  /\ figures' = Collect(figures, Gcf, Held(fig'))
  /\ response' = [response EXCEPT ![t] = Failure(exc'[t])]
  /\ pc' = [pc EXCEPT ![t] = "done"]
  /\ UNCHANGED <<X, Y, R_base, Gcf, served, query, mass, Z_clipped, num,
                 z_sphere_clipped, buf, image_base64, calls>>

Next ==
  \E t \in Threads :
    \/ \E q \in Queries : Receive(t, q)
    \/ FigureNum(t)
    \/ FigureRegister(t)
    \/ Draw(t)
    \/ SaveEncode(t)
    \/ CloseReturn(t)
    \/ Fail(t)

Spec == Init /\ [][Next]_vars

\* ------------------------------------------------------------ properties
Finished(t) == pc[t] = "done"
Succeeded(t) == Finished(t) /\ ~exc[t].raised
Failed(t) == Finished(t) /\ exc[t].raised
NonNumeric(q) == q # NoArg /\ ParseFloat(q) = ValueError
Zero == Fin(0, 1)

\* C1: a request whose mass parameter is not a number is answered with an
\* error (status 4xx or 5xx, "error", a non-empty message), never with 200.
C1_NonNumericRejected ==
  \A t \in Threads :
    (Finished(t) /\ NonNumeric(query[t])) =>
      /\ response[t].code >= 400
      /\ response[t].body.status = "error"
      /\ response[t].body.message # ""

\* C2: every exit of generate_plot_image, by return or by exception, leaves
\* the call's figure closed: once no request is running, as many figures
\* are open as before the first request, none.
C2_NoFigureLeftOpen ==
  (\A t \in Threads : pc[t] \in {"idle", "done"}) => Len(Gcf) = 0

\* C3: for every mass >= 0, every element of Z_clipped lies in [-15, 0].
C3_ClippingInvariant ==
  \A t \in Threads :
    (pc[t] # "idle" /\ LessEq(Zero, mass[t])) =>
      \A i \in Idx : \A j \in Idx :
        LessEq(Clip, Z_clipped[t][i][j]) /\ LessEq(Z_clipped[t][i][j], Zero)

\* C3's case: a mass >= 0 whose field has a clipped element, and an element
\* strictly between -15 and 0.
C3_Witness ==
  \E t \in Threads :
    /\ pc[t] # "idle"
    /\ Less(Zero, mass[t])
    /\ \E i \in Idx : \E j \in Idx : Z_clipped[t][i][j] = Clip
    /\ \E i \in Idx : \E j \in Idx :
         Less(Clip, Z_clipped[t][i][j]) /\ Less(Z_clipped[t][i][j], Zero)

Drawn(t) == z_sphere_clipped[t] # None

\* C4 as stated: the particle's z is max(-mass / 13, -15), with no other
\* term in the divisor.
C4_ParticleZExact ==
  \A t \in Threads :
    Drawn(t) =>
      Norm(z_sphere_clipped[t]) = Norm(NpMaximum(NegDiv(mass[t], Fin(13, 1)), Clip))

\* C4 amended: the particle's z is max(-mass / (13 + 1e-6), -15): the
\* divisor is sqrt(12^2 + 5^2) plus the same 1e-6 term the field's has.
C4_ParticleZWithEps ==
  \A t \in Threads :
    Drawn(t) =>
      Norm(z_sphere_clipped[t])
        = Norm(NpMaximum(NegDiv(mass[t], Fin(13000001, 1000000)), Clip))

\* C4's case: a particle plotted above the floor, and one clipped to it.
C4_Witness ==
  /\ \E t \in Threads :
       Drawn(t) /\ Less(Clip, z_sphere_clipped[t]) /\ Less(z_sphere_clipped[t], Zero)
  /\ \E t \in Threads :
       Drawn(t) /\ mass[t].k = "fin" /\ z_sphere_clipped[t] = Clip

\* C5: a request in which a step raised is answered 500 with status
\* "error" and the exception's text as message, carries no image_data, and
\* called the pipeline once.
C5_FailureEnvelope ==
  \A t \in Threads :
    Failed(t) =>
      /\ response[t].code = 500
      /\ DOMAIN response[t].body = {"status", "message"}
      /\ response[t].body.status = "error"
      /\ response[t].body.message = exc[t].text
      /\ calls[t] = 1

\* C5's case: a request that failed after its image had been drawn.
C5_Witness ==
  \E t \in Threads : Failed(t) /\ Drawn(t) /\ exc[t].text = ExcText("save")

TenPointZero == <<"1", "0", ".", "0">>

\* C6: a request without the mass parameter is answered as one with
\* mass=10.0 is: the same mass reaches the pipeline, and the responses of
\* two such requests that end alike are equal.
C6_DefaultIsTen ==
  \A t \in Threads : \A u \in Threads :
    (pc[t] # "idle" /\ pc[u] # "idle" /\ query[t] = NoArg /\ query[u] = TenPointZero) =>
      /\ mass[t] = mass[u]
      /\ (Finished(t) /\ Finished(u) /\ exc[t] = exc[u]) => response[t] = response[u]

\* C6's case: both requests answered with success.
C6_Witness ==
  \E t \in Threads : \E u \in Threads :
    /\ Succeeded(t) /\ Succeeded(u)
    /\ query[t] = NoArg /\ query[u] = TenPointZero

InBackend(t) == pc[t] \in {"register", "draw", "save", "close"}

\* C8: two requests never work on the plotting backend at once: their
\* spans from plt.figure to plt.close do not overlap (the registry Gcf and
\* its current figure are one per process, so no call has its own).
C8_BackendSerialised ==
  \A t \in Threads : \A u \in Threads :
    t # u => ~(InBackend(t) /\ InBackend(u))

\* C9: X, Y and R_base keep the values they had at startup.
C9_GridUnchanged ==
  /\ X = GridBuilder.X
  /\ Y = GridBuilder.Y
  /\ R_base = GridBuilder.R_base

\* C9's case: requests have run, one to success and one to failure.
C9_Witness ==
  /\ \E t \in Threads : Succeeded(t)
  /\ \E t \in Threads : Failed(t)
  /\ R_base = GridBuilder.R_base

B64Values ==
  [c \in {B64Alphabet[i] : i \in 1..64} |-> (CHOOSE i \in 1..64 : B64Alphabet[i] = c) - 1]

B64Index(c) == B64Values[c]

\* the bytes a base64 text stands for
RECURSIVE B64Decode(_)
B64Decode(cs) ==
  IF Len(cs) < 4 THEN <<>>
  ELSE LET a == B64Index(cs[1])
           b == B64Index(cs[2])
           first == <<a * 4 + b \div 16>>
       IN IF cs[3] = "=" THEN first
          ELSE LET c == B64Index(cs[3])
                   second == <<(b % 16) * 16 + c \div 4>>
               IN IF cs[4] = "=" THEN first \o second
                  ELSE first \o second \o <<(c % 4) * 64 + B64Index(cs[4])>>
                         \o B64Decode(SubSeq(cs, 5, Len(cs)))

\* C10: a request whose pipeline did not raise is answered 200 with status
\* "success", the mass handed to the pipeline, and the data URI prefix
\* followed by the base64 text of exactly the buffer's PNG bytes; and the
\* status is 200 exactly when the body says "success".
C10_SuccessEnvelope ==
  \A t \in Threads :
    /\ Succeeded(t) =>
         /\ response[t].code = 200
         /\ DOMAIN response[t].body = {"status", "mass_used", "image_data"}
         /\ response[t].body.status = "success"
         /\ response[t].body.mass_used = mass[t]
         /\ Head(response[t].body.image_data) = DataUriPrefix
         /\ B64Decode(Tail(response[t].body.image_data)) = buf[t].data
         /\ SubSeq(buf[t].data, 1, Len(PngSignature)) = PngSignature
         /\ Len(buf[t].data) > Len(PngSignature)
    /\ Finished(t) => (response[t].code = 200 <=> response[t].body.status = "success")

\* C10's case: a success and a failure have both been answered.
C10_Witness ==
  /\ \E t \in Threads : Succeeded(t) /\ Len(response[t].body.image_data) > 1
  /\ \E t \in Threads : Failed(t)

====
